---- MODULE Spec2Model ----
(***************************************************************************)
(* Model of the Seattle Opera playbill pipeline                            *)
(* (src/seattleoperacuprocessing.py): the record extractor, the year       *)
(* classifier, the year aggregator / batch orchestrator and the report     *)
(* writer of class SeattleOperaTableConverter, the extractor of            *)
(* src/json_to_table_converter.py, and the polling loop of                 *)
(* AzureContentUnderstandingClient.poll_result.                            *)
(*                                                                         *)
(* Representation.  A Python str is a sequence of characters, each         *)
(* character a one-letter TLA+ string; the en dash U+2013 is written       *)
(* "endash".  A JSON / Python value is a tagged record [t, v]:             *)
(*   t = "null" (None), "num" (int), "str", "arr" (list), "obj" (dict).    *)
(* A dict is a function from key names to values.  An operation that can   *)
(* raise returns a record [err |-> BOOLEAN, val |-> ...].                  *)
(***************************************************************************)
EXTENDS Integers, Sequences, FiniteSets, TLC

VARIABLES
    pc,                 \* position of the running call
    json_data,          \* extract_table_data: the document passed in
    table_data,         \* extract_table_data: the rows returned
    extract_exc,        \* extract_table_data: TRUE when it raised
    dates_str,          \* extract_year_from_dates: the argument
    year_label,         \* extract_year_from_dates: the label returned
    year_exc,           \* extract_year_from_dates: TRUE when it raised
    json_files,         \* process_json_files: the list of paths
    file_idx,           \* process_json_files: number of paths already looped over
    all_data_by_year,   \* process_json_files: the merged buckets
    processed_files,    \* process_json_files: the success list
    data_by_year,       \* save_to_excel_by_year: the aggregate passed in
    output_file,        \* save_to_excel_by_year: the file at output_path
    printed,            \* save_to_excel_by_year: the last status line printed
    writer_exc,         \* save_to_excel_by_year: TRUE when it raised
    operation_location, \* poll_result: the "operation-location" header, "" if none
    timeout_seconds,    \* poll_result: the argument
    polling_interval_seconds,   \* poll_result: the argument
    clock,              \* poll_result: time.time() - start_time, as it is now
    elapsed_time,       \* poll_result: the last reading of line 510
    poll_requests,      \* poll_result: number of requests.get calls made
    poll_response,      \* poll_result: the response of the last requests.get
    status,             \* poll_result: the local of line 521
    poll_outcome,       \* poll_result: "return", the exception raised, or ""
    poll_returned       \* poll_result: the value returned

vars == <<pc, json_data, table_data, extract_exc, dates_str, year_label,
          year_exc, json_files, file_idx, all_data_by_year, processed_files,
          data_by_year, output_file, printed, writer_exc,
          operation_location, timeout_seconds, polling_interval_seconds, clock,
          elapsed_time, poll_requests, poll_response, status, poll_outcome,
          poll_returned>>

extractVars == <<json_data, table_data, extract_exc>>
yearVars    == <<dates_str, year_label, year_exc>>
batchVars   == <<json_files, file_idx, all_data_by_year, processed_files>>
writerVars  == <<data_by_year, output_file, printed, writer_exc>>
pollVars    == <<operation_location, timeout_seconds, polling_interval_seconds,
                 clock, elapsed_time, poll_requests, poll_response, status,
                 poll_outcome, poll_returned>>

(***************************************************************************)
(* Bounds of the model.                                                    *)
(***************************************************************************)
MaxEntries == 2     \* role entries per generated content block
MaxTokens  == 5     \* tokens per generated dates string
MaxFiles   == 3     \* paths per batch
MaxRows    == 2     \* rows per bucket of a directly supplied aggregate
MaxTimeout  == 3    \* largest timeout_seconds passed to poll_result
MaxInterval == 2    \* largest polling_interval_seconds passed to poll_result
MaxDelay    == 1    \* most the clock moves beyond what the code waits for

(***************************************************************************)
(* Characters and strings.                                                 *)
(***************************************************************************)
Digits == {"0", "1", "2", "3", "4", "5", "6", "7", "8", "9"}

Letters == {"A", "B", "C", "D", "E", "F", "G", "H", "I", "J", "K", "L", "M",
            "N", "O", "P", "Q", "R", "S", "T", "U", "V", "W", "X", "Y", "Z",
            "a", "b", "c", "d", "e", "f", "g", "h", "i", "j", "k", "l", "m",
            "n", "o", "p", "q", "r", "s", "t", "u", "v", "w", "x", "y", "z"}

\* The characters in code point order (str comparison compares code points).
CodePointOrder ==
    <<" ", "(", ")", ",", "-", ".",
      "0", "1", "2", "3", "4", "5", "6", "7", "8", "9",
      "A", "B", "C", "D", "E", "F", "G", "H", "I", "J", "K", "L", "M",
      "N", "O", "P", "Q", "R", "S", "T", "U", "V", "W", "X", "Y", "Z",
      "_",
      "a", "b", "c", "d", "e", "f", "g", "h", "i", "j", "k", "l", "m",
      "n", "o", "p", "q", "r", "s", "t", "u", "v", "w", "x", "y", "z",
      "endash">>

Ord(c) == CHOOSE i \in 1..Len(CodePointOrder) : CodePointOrder[i] = c

\* regex \d and \w
IsDigit(c) == c \in Digits
IsWord(c) == c \in Digits \cup Letters \cup {"_"}

\* s < t for two str (lexicographic by code point; a proper prefix is smaller)
RECURSIVE StrLess(_, _)
StrLess(s, t) ==
    IF t = <<>> THEN FALSE
    ELSE IF s = <<>> THEN TRUE
    ELSE IF Head(s) = Head(t) THEN StrLess(Tail(s), Tail(t))
    ELSE Ord(Head(s)) < Ord(Head(t))

\* sub in s, for two str
IsSubstr(sub, s) ==
    \E i \in 0..(Len(s) - Len(sub)) : SubSeq(s, i + 1, i + Len(sub)) = sub

\* the string literals of the source
lit_Unknown      == <<"U", "n", "k", "n", "o", "w", "n">>
lit_0000         == <<"0", "0", "0", "0">>
lit_Year_        == <<"Y", "e", "a", "r", "_">>
lit_Unknown_Year == <<"U", "n", "k", "n", "o", "w", "n", "_", "Y", "e", "a", "r">>
lit_Summary      == <<"S", "u", "m", "m", "a", "r", "y">>
lit_CommaSpace   == <<",", " ">>

\* the spelling of a dict key
KeyChars(k) ==
    CASE k = "result"      -> <<"r", "e", "s", "u", "l", "t">>
      [] k = "contents"    -> <<"c", "o", "n", "t", "e", "n", "t", "s">>
      [] k = "fields"      -> <<"f", "i", "e", "l", "d", "s">>
      [] k = "SHOW"        -> <<"S", "H", "O", "W">>
      [] k = "DATES"       -> <<"D", "A", "T", "E", "S">>
      [] k = "DATE"        -> <<"D", "A", "T", "E">>
      [] k = "ROLES"       -> <<"R", "O", "L", "E", "S">>
      [] k = "ROLE"        -> <<"R", "O", "L", "E">>
      [] k = "ARTIST"      -> <<"A", "R", "T", "I", "S", "T">>
      [] k = "OTHER"       -> <<"O", "T", "H", "E", "R">>
      [] k = "valueString" -> <<"v", "a", "l", "u", "e", "S", "t", "r", "i", "n", "g">>
      [] k = "valueDate"   -> <<"v", "a", "l", "u", "e", "D", "a", "t", "e">>
      [] k = "valueArray"  -> <<"v", "a", "l", "u", "e", "A", "r", "r", "a", "y">>
      [] k = "valueObject" -> <<"v", "a", "l", "u", "e", "O", "b", "j", "e", "c", "t">>
      [] k = "kind"        -> <<"k", "i", "n", "d">>

(***************************************************************************)
(* JSON values and the Python operations the extractor applies to them.    *)
(***************************************************************************)
Null   == [t |-> "null", v |-> 0]
Num(n) == [t |-> "num", v |-> n]
Str(s) == [t |-> "str", v |-> s]
Arr(a) == [t |-> "arr", v |-> a]
Obj(f) == [t |-> "obj", v |-> f]

EmptyDict == [k \in {} |-> <<>>]

\* bool(x)
Truthy(x) ==
    CASE x.t = "null" -> FALSE
      [] x.t = "num"  -> x.v # 0
      [] x.t = "str"  -> Len(x.v) > 0
      [] x.t = "arr"  -> Len(x.v) > 0
      [] x.t = "obj"  -> DOMAIN x.v # {}

\* `k in x` for a str literal k: "T", "F", or "E" when it raises TypeError
PyIn(k, x) ==
    CASE x.t = "obj" -> IF k \in DOMAIN x.v THEN "T" ELSE "F"
      [] x.t = "str" -> IF IsSubstr(KeyChars(k), x.v) THEN "T" ELSE "F"
      [] x.t = "arr" -> IF \E i \in 1..Len(x.v) :
                               x.v[i].t = "str" /\ x.v[i].v = KeyChars(k)
                        THEN "T" ELSE "F"
      [] OTHER       -> "E"

\* `x[k]` for a str literal k that `k in x` found
PyGet(x, k) ==
    IF x.t = "obj" /\ k \in DOMAIN x.v
    THEN [err |-> FALSE, val |-> x.v[k]]
    ELSE [err |-> TRUE, val |-> Null]

RECURSIVE SetToSeq(_)
SetToSeq(S) ==
    IF S = {} THEN <<>>
    ELSE LET x == CHOOSE y \in S : TRUE IN <<x>> \o SetToSeq(S \ {x})

\* the items `for item in x` loops over.  A dict yields its keys, which are
\* str; a str never produces a row, so the order of the keys does not change
\* what the loops below return.
PyIter(x) ==
    CASE x.t = "arr" -> [err |-> FALSE, val |-> x.v]
      [] x.t = "str" -> [err |-> FALSE,
                         val |-> [i \in 1..Len(x.v) |-> Str(<<x.v[i]>>)]]
      [] x.t = "obj" -> [err |-> FALSE,
                         val |-> LET ks == SetToSeq(DOMAIN x.v)
                                 IN [i \in 1..Len(ks) |-> Str(KeyChars(ks[i]))]]
      [] OTHER       -> [err |-> TRUE, val |-> <<>>]

\* `k1 in x and k2 in x[k1]`: "T", "F" or "E"
HasPath(x, k1, k2) ==
    LET a == PyIn(k1, x)
    IN IF a # "T" THEN a
       ELSE LET g == PyGet(x, k1)
            IN IF g.err THEN "E" ELSE PyIn(k2, g.val)

\* `x[k1][k2]`
GetPath(x, k1, k2) ==
    LET g == PyGet(x, k1)
    IN IF g.err THEN g ELSE PyGet(g.val, k2)

\* v = ""; if k1 in x and k2 in x[k1]: v = x[k1][k2]
OptLeaf(x, k1, k2) ==
    LET h == HasPath(x, k1, k2)
    IN CASE h = "E" -> [err |-> TRUE, val |-> Null]
         [] h = "F" -> [err |-> FALSE, val |-> Str(<<>>)]
         [] h = "T" -> GetPath(x, k1, k2)

(***************************************************************************)
(* Record Extractor: SeattleOperaTableConverter.extract_table_data.        *)
(***************************************************************************)
Raised == [err |-> TRUE, val |-> <<>>]
Returned(v) == [err |-> FALSE, val |-> v]

\* a local variable: Body of the value v
With(v, Body(_)) == Body(v)

\* mutant of ExtractDates: DATE is consulted only when the DATES key is missing
ExtractDatesKeyOnly(fields) ==
    With(PyIn("DATES", fields), LAMBDA h0 :
      CASE h0 = "E" -> [err |-> TRUE, val |-> Null]
        [] h0 = "T" -> OptLeaf(fields, "DATES", "valueString")
        [] h0 = "F" -> OptLeaf(fields, "DATE", "valueDate"))

\* the DATES column of a content block: `dates = ""`, then the if / elif
ExtractDates(fields) ==
    With(HasPath(fields, "DATES", "valueString"), LAMBDA h1 :
      CASE h1 = "E" -> [err |-> TRUE, val |-> Null]
        [] h1 = "T" -> GetPath(fields, "DATES", "valueString")
        [] h1 = "F" ->
             With(HasPath(fields, "DATE", "valueDate"), LAMBDA h2 :
               CASE h2 = "E" -> [err |-> TRUE, val |-> Null]
                 [] h2 = "T" -> GetPath(fields, "DATE", "valueDate")
                 [] h2 = "F" -> [err |-> FALSE, val |-> Str(<<>>)]))

\* mutant of KeepRow: the artist is not looked at
KeepRowRoleOnly(role, artist) == Truthy(role)

\* `if role and artist:` of the row filter
KeepRow(role, artist) == Truthy(role) /\ Truthy(artist)

\* lines 82-104: the rows one role_obj appends, given its three lookups
EntryRows(role, artist, other, show, dates, filename) ==
    IF role.err \/ artist.err \/ other.err THEN Raised
    ELSE IF KeepRow(role.val, artist.val)
    THEN Returned(<<[SHOW     |-> show,
                     DATES    |-> dates,
                     ROLE     |-> role.val,
                     ARTIST   |-> artist.val,
                     OTHER_   |-> other.val,   \* column OTHER (a reserved word here)
                     FILENAME |-> filename]>>)
    ELSE Returned(<<>>)

\* mutant of ExtractEntry: a role entry without valueObject is an error
ExtractEntryNeedsValueObject(role_entry, show, dates, filename) ==
    With(PyGet(role_entry, "valueObject"), LAMBDA g :
      IF g.err THEN Raised
      ELSE EntryRows(OptLeaf(g.val, "ROLE", "valueString"),
                     OptLeaf(g.val, "ARTIST", "valueString"),
                     OptLeaf(g.val, "OTHER", "valueString"),
                     show, dates, filename))

\* the body of `for role_entry in ...`: the rows one role entry appends
ExtractEntry(role_entry, show, dates, filename) ==
    With(PyIn("valueObject", role_entry), LAMBDA h :
      CASE h = "E" -> Raised
        [] h = "F" -> Returned(<<>>)
        [] h = "T" ->
             With(PyGet(role_entry, "valueObject"), LAMBDA g :
               IF g.err THEN Raised
               ELSE EntryRows(OptLeaf(g.val, "ROLE", "valueString"),
                              OptLeaf(g.val, "ARTIST", "valueString"),
                              OptLeaf(g.val, "OTHER", "valueString"),
                              show, dates, filename)))

\* rows appended by one loop item followed by the rows of the later items
Chain(first, rest) ==
    IF first.err \/ rest.err THEN Raised ELSE Returned(first.val \o rest.val)

\* `for role_entry in fields['ROLES']['valueArray']`
RECURSIVE ExtractEntries(_, _, _, _)
ExtractEntries(entries, show, dates, filename) ==
    IF entries = <<>> THEN Returned(<<>>)
    ELSE Chain(ExtractEntry(Head(entries), show, dates, filename),
               ExtractEntries(Tail(entries), show, dates, filename))

\* lines 77-104, given show and dates and the test of line 77
ExtractRoles(fields, show, dates, hr, filename) ==
    IF show.err \/ dates.err \/ hr = "E" THEN Raised
    ELSE IF hr = "F" THEN Returned(<<>>)
    ELSE With(GetPath(fields, "ROLES", "valueArray"), LAMBDA arr :
           IF arr.err THEN Raised
           ELSE With(PyIter(arr.val), LAMBDA items :
                  IF items.err THEN Raised
                  ELSE ExtractEntries(items.val, show.val, dates.val, filename)))

\* the body of `for content in contents`: the rows one content block appends
ExtractContent(content, filename) ==
    With(PyIn("fields", content), LAMBDA h :
      CASE h = "E" -> Raised
        [] h = "F" -> Returned(<<>>)
        [] h = "T" ->
             With(PyGet(content, "fields"), LAMBDA f :
               IF f.err THEN Raised
               ELSE ExtractRoles(f.val,
                                 OptLeaf(f.val, "SHOW", "valueString"),
                                 ExtractDates(f.val),
                                 HasPath(f.val, "ROLES", "valueArray"),
                                 filename)))

\* `for content in contents`
RECURSIVE ExtractContents(_, _)
ExtractContents(contents, filename) ==
    IF contents = <<>> THEN Returned(<<>>)
    ELSE Chain(ExtractContent(Head(contents), filename),
               ExtractContents(Tail(contents), filename))

extract_table_data(doc, filename) ==
    With(HasPath(doc, "result", "contents"), LAMBDA h :
      CASE h = "E" -> Raised
        [] h = "F" -> Returned(<<>>)
        [] h = "T" ->
             With(GetPath(doc, "result", "contents"), LAMBDA c :
               IF c.err THEN Raised
               ELSE With(PyIter(c.val), LAMBDA items :
                      IF items.err THEN Raised
                      ELSE ExtractContents(items.val, filename))))

\* json_to_table_converter.py, lines 85-91: the row appended there has the
\* same columns but no FILENAME
ConverterRow(row) ==
    [SHOW   |-> row.SHOW,
     DATES  |-> row.DATES,
     ROLE   |-> row.ROLE,
     ARTIST |-> row.ARTIST,
     OTHER_ |-> row.OTHER_]

\* json_to_table_converter.extract_table_data(json_data): line for line the
\* traversal above, without the filename argument
converter_extract_table_data(doc) ==
    With(extract_table_data(doc, Str(<<>>)), LAMBDA r :
      [err |-> r.err, val |-> [i \in 1..Len(r.val) |-> ConverterRow(r.val[i])]])

(***************************************************************************)
(* Year Classifier: SeattleOperaTableConverter.extract_year_from_dates.    *)
(***************************************************************************)
\* regex \b at offset p of s (between s[p] and s[p+1]): exactly one of the
\* two neighbours is a word character; beyond either end there is none.
WordBoundary(s, p) ==
    LET before == p >= 1 /\ p <= Len(s) /\ IsWord(s[p])
        after  == p + 1 >= 1 /\ p + 1 <= Len(s) /\ IsWord(s[p + 1])
    IN before # after

\* (19|20)\d{2} matching s[i..i+3]
YearDigitsAt(s, i) ==
    /\ i >= 1
    /\ i + 3 <= Len(s)
    /\ \/ s[i] = "1" /\ s[i + 1] = "9"
       \/ s[i] = "2" /\ s[i + 1] = "0"
    /\ IsDigit(s[i + 2])
    /\ IsDigit(s[i + 3])

\* mutant of PlainYearAt: the closing \b is left out
PlainYearAtOpenEnd(s, i) ==
    /\ YearDigitsAt(s, i)
    /\ WordBoundary(s, i - 1)

\* r'\b(19|20)\d{2}\b' matching at index i
PlainYearAt(s, i) ==
    /\ YearDigitsAt(s, i)
    /\ WordBoundary(s, i - 1)
    /\ WordBoundary(s, i + 3)

\* mutant of RangeAt: the opening \b is left out
RangeAtNoOpeningBoundary(s, i) ==
    /\ YearDigitsAt(s, i)
    /\ i + 6 <= Len(s)
    /\ s[i + 4] \in {"-", "endash"}
    /\ IsDigit(s[i + 5])
    /\ IsDigit(s[i + 6])
    /\ WordBoundary(s, i + 6)

\* r'\b(19|20)\d{2}[-–]\d{2}\b' matching at index i
RangeAt(s, i) ==
    /\ YearDigitsAt(s, i)
    /\ WordBoundary(s, i - 1)
    /\ i + 6 <= Len(s)
    /\ s[i + 4] \in {"-", "endash"}
    /\ IsDigit(s[i + 5])
    /\ IsDigit(s[i + 6])
    /\ WordBoundary(s, i + 6)

\* re.search scans the start positions from the left; 0 stands for None
RECURSIVE SearchPlainYear(_, _)
SearchPlainYear(s, i) ==
    IF i > Len(s) THEN 0
    ELSE IF PlainYearAt(s, i) THEN i
    ELSE SearchPlainYear(s, i + 1)

RECURSIVE SearchRange(_, _)
SearchRange(s, i) ==
    IF i > Len(s) THEN 0
    ELSE IF RangeAt(s, i) THEN i
    ELSE SearchRange(s, i + 1)

\* s.split(sep)[0]: the part of s before the first sep
RECURSIVE SplitFirst(_, _)
SplitFirst(s, sep) ==
    IF s = <<>> \/ Head(s) = sep THEN <<>>
    ELSE <<Head(s)>> \o SplitFirst(Tail(s), sep)

\* mutant of ClassifyStr: a string without a year is returned as it is
ClassifyStrKeepsText(s) ==
    LET m == SearchPlainYear(s, 1)
    IN IF m # 0 THEN SubSeq(s, m, m + 3) ELSE s

\* mutant of ClassifyStr: the year is returned without its century
ClassifyStrShortYear(s) ==
    LET m == SearchPlainYear(s, 1)
    IN IF m # 0 THEN SubSeq(s, m + 2, m + 3) ELSE lit_Unknown

\* mutant of ClassifyStr: the range search runs before the plain-year search
ClassifyStrRangeFirst(s) ==
    LET r == SearchRange(s, 1)
    IN IF r # 0
       THEN SplitFirst(SplitFirst(SubSeq(s, r, r + 6), "-"), "endash")
       ELSE LET m == SearchPlainYear(s, 1)
            IN IF m # 0 THEN SubSeq(s, m, m + 3) ELSE lit_Unknown

\* lines 113-124, for a non-empty str
ClassifyStr(s) ==
    LET m == SearchPlainYear(s, 1)
    IN IF m # 0 THEN SubSeq(s, m, m + 3)
       ELSE LET r == SearchRange(s, 1)
            IN IF r # 0
               THEN SplitFirst(SplitFirst(SubSeq(s, r, r + 6), "-"), "endash")
               ELSE lit_Unknown

\* the argument is whatever the DATES column holds: `not dates_str` is true
\* of every falsy value, and re.search raises TypeError on a non-str.
extract_year_from_dates(d) ==
    IF ~Truthy(d) THEN [err |-> FALSE, val |-> lit_Unknown]
    ELSE IF d.t # "str" THEN [err |-> TRUE, val |-> <<>>]
    ELSE [err |-> FALSE, val |-> ClassifyStr(d.v)]

(***************************************************************************)
(* Year Aggregator: organize_data_by_year and the merge of                 *)
(* process_json_files.                                                     *)
(***************************************************************************)
\* mutant of AppendTo: the row is put in front of the bucket
AppendToFront(d, year, row) ==
    [y \in DOMAIN d \cup {year} |->
        IF y = year
        THEN <<row>> \o (IF y \in DOMAIN d THEN d[y] ELSE <<>>)
        ELSE d[y]]

\* data_by_year[year].append(row) on a defaultdict(list)
AppendTo(d, year, row) ==
    [y \in DOMAIN d \cup {year} |->
        IF y = year
        THEN (IF y \in DOMAIN d THEN d[y] ELSE <<>>) \o <<row>>
        ELSE d[y]]

\* `for row in table_data`, from row i on, with the dict built so far
RECURSIVE OrganizeFrom(_, _, _)
OrganizeFrom(rows, i, d) ==
    IF i > Len(rows) THEN [err |-> FALSE, val |-> d]
    ELSE With(extract_year_from_dates(rows[i].DATES), LAMBDA year :
           IF year.err THEN [err |-> TRUE, val |-> EmptyDict]
           ELSE OrganizeFrom(rows, i + 1, AppendTo(d, year.val, rows[i])))

organize_data_by_year(rows) == OrganizeFrom(rows, 1, EmptyDict)

\* mutant of MergeYearData: a bucket is replaced, not extended
MergeYearDataOverwrite(all, year_data) ==
    [y \in DOMAIN all \cup DOMAIN year_data |->
        IF y \in DOMAIN year_data THEN year_data[y] ELSE all[y]]

\* for year, data in year_data.items(): all_data_by_year[year].extend(data)
MergeYearData(all, year_data) ==
    [y \in DOMAIN all \cup DOMAIN year_data |->
        (IF y \in DOMAIN all THEN all[y] ELSE <<>>)
        \o (IF y \in DOMAIN year_data THEN year_data[y] ELSE <<>>)]

(***************************************************************************)
(* The files on disk.  A path is the sequence of its components, each a    *)
(* str; FileContent(path) is what open + json.load meet there.             *)
(***************************************************************************)
\* Path(json_file).name: the final component
PathName(path) == IF path = <<>> THEN <<>> ELSE path[Len(path)]

\* builders for documents of the analyzer's schema
Leaf(s)     == Obj("valueString" :> Str(s))
DateLeaf(s) == Obj("valueDate" :> Str(s))

RoleEntry(role, artist) ==
    Obj("valueObject" :> Obj(("ROLE" :> Leaf(role)) @@ ("ARTIST" :> Leaf(artist))))

RoleEntryOther(role, artist, other) ==
    Obj("valueObject" :> Obj(("ROLE" :> Leaf(role)) @@ ("ARTIST" :> Leaf(artist))
                             @@ ("OTHER" :> Leaf(other))))

Block(show, dates, entries) ==
    Obj("fields" :> Obj(("SHOW" :> Leaf(show)) @@ ("DATES" :> dates)
                        @@ ("ROLES" :> Obj("valueArray" :> Arr(entries)))))

Document(blocks) == Obj("result" :> Obj("contents" :> Arr(blocks)))

\* the strings the sample documents use
s_Carmen  == <<"C", "a", "r", "m", "e", "n">>
s_Aida    == <<"A", "i", "d", "a">>
s_Mimi    == <<"M", "i", "m", "i">>
s_Don     == <<"D", "o", "n">>
s_Ann     == <<"A", "n", "n">>
s_Bo      == <<"B", "o">>
s_cover   == <<"c", "o", "v", "e", "r">>
s_1985_86 == <<"1", "9", "8", "5", "-", "8", "6">>
s_Mar2001 == <<"M", "a", "r", " ", "2", "0", "0", "1">>
s_TBD     == <<"T", "B", "D">>
s_1978    == <<"1", "9", "7", "8">>

dir_cu  == <<"c", "u">>
dir_old == <<"o", "l", "d">>

p_carmen   == <<dir_cu, <<"a">>>>
p_mixed    == <<dir_cu, <<"b">>>>
p_norec    == <<dir_cu, <<"c">>>>
p_invalid  == <<dir_cu, <<"d">>>>
p_badblock == <<dir_cu, <<"e">>>>
p_numdate  == <<dir_cu, <<"f">>>>
p_missing  == <<dir_cu, <<"g">>>>
p_oldcopy  == <<dir_old, <<"a">>>>

Paths == {p_carmen, p_mixed, p_norec, p_invalid, p_badblock, p_numdate,
          p_missing, p_oldcopy}

doc_carmen ==
    Document(<<Block(s_Carmen, Leaf(s_1985_86),
                     <<RoleEntryOther(s_Mimi, s_Ann, s_cover),
                       RoleEntry(s_Don, s_Bo)>>)>>)

\* two blocks; its first row repeats a row of doc_carmen but for FILENAME
doc_mixed ==
    Document(<<Block(s_Carmen, Leaf(s_1985_86),
                     <<RoleEntryOther(s_Mimi, s_Ann, s_cover)>>),
               Block(s_Aida, Leaf(s_TBD),
                     <<RoleEntry(s_Don, s_Bo), RoleEntry(s_Don, s_Bo)>>),
               Block(s_Aida, Leaf(s_Mar2001), <<RoleEntry(s_Mimi, s_Bo)>>)>>)

\* well formed, no row: one entry lacks ARTIST, the other has an empty ROLE
doc_norec ==
    Document(<<Block(s_Aida, Leaf(s_1978),
                     <<Obj("valueObject" :> Obj("ROLE" :> Leaf(s_Mimi))),
                       RoleEntry(<<>>, s_Bo)>>)>>)

\* a valid block followed by a number where a content block is expected
doc_badblock ==
    Document(<<Block(s_Aida, Leaf(s_1978), <<RoleEntry(s_Mimi, s_Ann)>>), Num(5)>>)

\* DATES.valueString holds the number 1985 instead of a str
doc_numdate ==
    Document(<<Block(s_Aida, Leaf(s_1978), <<RoleEntry(s_Mimi, s_Ann)>>),
               Block(s_Carmen, Obj("valueString" :> Num(1985)),
                     <<RoleEntry(s_Don, s_Bo)>>)>>)

\* the same rows as doc_carmen under another directory, dated 1978
doc_oldcopy ==
    Document(<<Block(s_Carmen, Leaf(s_1978), <<RoleEntry(s_Don, s_Bo)>>)>>)

FileContent(path) ==
    CASE path = p_carmen   -> [kind |-> "json", doc |-> doc_carmen]
      [] path = p_mixed    -> [kind |-> "json", doc |-> doc_mixed]
      [] path = p_norec    -> [kind |-> "json", doc |-> doc_norec]
      [] path = p_invalid  -> [kind |-> "invalid", doc |-> Null]
      [] path = p_badblock -> [kind |-> "json", doc |-> doc_badblock]
      [] path = p_numdate  -> [kind |-> "json", doc |-> doc_numdate]
      [] path = p_oldcopy  -> [kind |-> "json", doc |-> doc_oldcopy]
      [] OTHER             -> [kind |-> "missing", doc |-> Null]

\* load_json_data: FileNotFoundError and JSONDecodeError are re-raised
load_json_data(path) ==
    LET f == FileContent(path)
    IN IF f.kind = "json" THEN [err |-> FALSE, val |-> f.doc]
       ELSE [err |-> TRUE, val |-> Null]

(***************************************************************************)
(* Batch Orchestrator: SeattleOperaTableConverter.process_json_files.      *)
(***************************************************************************)
\* mutant of ProcessFile: a file whose classification raised is still listed
ProcessFileListsFailedFile(st, json_file) ==
    With(load_json_data(json_file), LAMBDA loaded :
      IF loaded.err THEN st
      ELSE With(extract_table_data(loaded.val, Str(PathName(json_file))),
                LAMBDA extracted :
             IF extracted.err THEN st
             ELSE IF extracted.val = <<>> THEN st
             ELSE With(organize_data_by_year(extracted.val), LAMBDA year_data :
                    IF year_data.err
                    THEN [all       |-> st.all,
                          processed |-> Append(st.processed, json_file)]
                    ELSE [all       |-> MergeYearData(st.all, year_data.val),
                          processed |-> Append(st.processed, json_file)])))

\* the body of `for json_file in json_files` (lines 142-164) from the state
\* st = [all, processed]: what the iteration leaves behind
ProcessFile(st, json_file) ==
    With(load_json_data(json_file), LAMBDA loaded :
      IF loaded.err THEN st
      ELSE With(extract_table_data(loaded.val, Str(PathName(json_file))),
                LAMBDA extracted :
             IF extracted.err THEN st
             ELSE IF extracted.val = <<>> THEN st
             ELSE With(organize_data_by_year(extracted.val), LAMBDA year_data :
                    IF year_data.err THEN st
                    ELSE [all       |-> MergeYearData(st.all, year_data.val),
                          processed |-> Append(st.processed, json_file)])))

\* the whole loop over a list of paths
RECURSIVE ProcessFiles(_, _)
ProcessFiles(st, files) ==
    IF files = <<>> THEN st
    ELSE ProcessFiles(ProcessFile(st, Head(files)), Tail(files))

(***************************************************************************)
(* Report Writer: save_to_excel_by_year and _create_summary_sheet.         *)
(***************************************************************************)
fieldnames == <<"SHOW", "DATES", "ROLE", "ARTIST", "OTHER", "FILENAME">>

SheetNameLimit == 31

NoFile == [exists |-> FALSE, sheets |-> <<>>]

\* mutant of SortKey: "Unknown" sorts as itself
SortKeyPlain(year) == year

\* key=lambda x: x if x != "Unknown" else "0000"
SortKey(year) == IF year # lit_Unknown THEN year ELSE lit_0000

\* sorted(data_by_year.keys(), key=...)
RECURSIVE SortedYears(_)
SortedYears(years) ==
    IF years = {} THEN <<>>
    ELSE LET m == CHOOSE x \in years :
                      \A y \in years : ~StrLess(SortKey(y), SortKey(x))
         IN <<m>> \o SortedYears(years \ {m})

\* f"Year_{year}" if year != "Unknown" else "Unknown_Year"
RawSheetName(year) ==
    IF year # lit_Unknown THEN lit_Year_ \o year ELSE lit_Unknown_Year

\* sheet_name[:31]
SheetName(year) ==
    LET n == RawSheetName(year)
    IN IF Len(n) > SheetNameLimit THEN SubSeq(n, 1, SheetNameLimit) ELSE n

\* pd.DataFrame(data)[self.fieldnames] written by to_excel(index=False)
YearSheet(year, data) ==
    [name    |-> SheetName(year),
     columns |-> fieldnames,
     rows    |-> [i \in 1..Len(data) |->
                    <<data[i].SHOW, data[i].DATES, data[i].ROLE,
                      data[i].ARTIST, data[i].OTHER_, data[i].FILENAME>>]]

\* lines 182-201: the year sheets, in the order of sorted_years
RECURSIVE YearSheets(_, _)
YearSheets(d, sorted_years) ==
    IF sorted_years = <<>> THEN <<>>
    ELSE LET year == Head(sorted_years)
             rest == YearSheets(d, Tail(sorted_years))
         IN IF d[year] = <<>> THEN rest
            ELSE <<YearSheet(year, d[year])>> \o rest

\* sorted(shows) for a set of str
RECURSIVE SortedStrs(_)
SortedStrs(S) ==
    IF S = {} THEN <<>>
    ELSE LET m == CHOOSE x \in S : \A y \in S : ~StrLess(y, x)
         IN <<m>> \o SortedStrs(S \ {m})

\* ', '.join(strs)
RECURSIVE JoinComma(_)
JoinComma(strs) ==
    IF strs = <<>> THEN <<>>
    ELSE IF Len(strs) = 1 THEN strs[1]
    ELSE strs[1] \o lit_CommaSpace \o JoinComma(Tail(strs))

\* mutant of SummaryRow: Unique_Shows counts rows
SummaryRowCountingRows(year, data) ==
    LET shows == {data[i].SHOW.v : i \in 1..Len(data)}
    IN [Year         |-> year,
        Shows        |-> JoinComma(SortedStrs(shows)),
        Total_Roles  |-> Len(data),
        Unique_Shows |-> Len(data),
        Sheet_Name   |-> RawSheetName(year)]

\* one row of summary_data (lines 224-233); SHOW holds a str in every row
\* (sorted and join accept nothing else)
SummaryRow(year, data) ==
    LET shows == {data[i].SHOW.v : i \in 1..Len(data)}
    IN [Year         |-> year,
        Shows        |-> JoinComma(SortedStrs(shows)),
        Total_Roles  |-> Len(data),
        Unique_Shows |-> Cardinality(shows),
        Sheet_Name   |-> RawSheetName(year)]

\* `for year in sorted_years` of _create_summary_sheet
RECURSIVE SummaryRows(_, _)
SummaryRows(d, sorted_years) ==
    IF sorted_years = <<>> THEN <<>>
    ELSE LET year == Head(sorted_years)
             rest == SummaryRows(d, Tail(sorted_years))
         IN IF d[year] = <<>> THEN rest
            ELSE <<SummaryRow(year, d[year])>> \o rest

\* the sheets _create_summary_sheet adds: one "Summary" sheet, or none
create_summary_sheet(d, sorted_years) ==
    LET summary_data == SummaryRows(d, sorted_years)
    IN IF summary_data # <<>>
       THEN <<[name    |-> lit_Summary,
               columns |-> <<"Year", "Shows", "Total_Roles", "Unique_Shows",
                             "Sheet_Name">>,
               rows    |-> summary_data]>>
       ELSE <<>>

\* mutant of NothingToSave: only `not data_by_year`
NothingToSaveNoBuckets(d) == DOMAIN d = {}

\* `not data_by_year or all(not data for data in data_by_year.values())`
NothingToSave(d) == DOMAIN d = {} \/ \A y \in DOMAIN d : d[y] = <<>>

\* save_to_excel_by_year with the file `before` at output_path; openpyxl is
\* whether pd.ExcelWriter(engine='openpyxl') finds the library.  The result
\* is the file afterwards, the status line printed and whether it raised.
save_to_excel_by_year(d, before, openpyxl) ==
    IF NothingToSave(d)
    THEN [file |-> before, printed |-> "No data to save to Excel.", exc |-> FALSE]
    ELSE IF ~openpyxl
    THEN [file |-> before, printed |-> "Error: openpyxl library not found.",
          exc |-> TRUE]
    ELSE LET sorted_years == SortedYears(DOMAIN d)
             sheets       == YearSheets(d, sorted_years)
         IN IF Len(sheets) > 0
            THEN [file    |-> [exists |-> TRUE,
                               sheets |-> sheets
                                          \o create_summary_sheet(d, sorted_years)],
                  printed |-> "Data successfully saved to Excel",
                  exc     |-> FALSE]
            ELSE [file    |-> [exists |-> TRUE, sheets |-> <<>>],
                  printed |-> "No valid data found to create Excel sheets.",
                  exc     |-> FALSE]

(***************************************************************************)
(* Analysis client: AzureContentUnderstandingClient.poll_result.  Times    *)
(* are whole numbers of one unit; the clock is time.time() - start_time.   *)
(***************************************************************************)
UpperCase == <<"A", "B", "C", "D", "E", "F", "G", "H", "I", "J", "K", "L", "M",
               "N", "O", "P", "Q", "R", "S", "T", "U", "V", "W", "X", "Y", "Z">>

LowerCase == <<"a", "b", "c", "d", "e", "f", "g", "h", "i", "j", "k", "l", "m",
               "n", "o", "p", "q", "r", "s", "t", "u", "v", "w", "x", "y", "z">>

\* str.lower()
StrLower(s) ==
    [i \in 1..Len(s) |->
        IF \E k \in 1..26 : UpperCase[k] = s[i]
        THEN LowerCase[CHOOSE k \in 1..26 : UpperCase[k] = s[i]]
        ELSE s[i]]

lit_succeeded == <<"s", "u", "c", "c", "e", "e", "d", "e", "d">>
lit_failed    == <<"f", "a", "i", "l", "e", "d">>

\* d.get(k, default) on a dict
DictGet(d, k, default) == IF k \in DOMAIN d THEN d[k] ELSE default

\* mutant of StatusOf: lower() is left out
StatusOfAsSent(result) == DictGet(result, "status", <<>>)

\* status = result.get("status", "").lower()
StatusOf(result) == StrLower(DictGet(result, "status", <<>>))

\* what requests.get gave: raise_for_status() raises unless ok; body is
\* response.json(), a dict of str
NoResponse == [ok |-> FALSE, body |-> EmptyDict]

(***************************************************************************)
(* The inputs the specifications draw from.                                *)
(***************************************************************************)
\* the statuses the service sends, in its spelling and in others
ServiceStatuses ==
    {<<"S", "u", "c", "c", "e", "e", "d", "e", "d">>,
     <<"s", "u", "c", "c", "e", "e", "d", "e", "d">>,
     <<"F", "a", "i", "l", "e", "d">>,
     <<"F", "A", "I", "L", "E", "D">>,
     <<"R", "u", "n", "n", "i", "n", "g">>,
     <<"N", "o", "t", "S", "t", "a", "r", "t", "e", "d">>}

\* the responses a poll can meet: an unsuccessful status code, or a body
\* with or without a status
PollResponses ==
    {[ok |-> FALSE, body |-> EmptyDict]}
    \cup {[ok |-> TRUE, body |-> b] :
             b \in {EmptyDict} \cup {"status" :> st : st \in ServiceStatuses}}

op_url == <<"h", "t", "t", "p", "s", ":", "/", "/", "x", "/", "1">>

SeqsUpTo(S, n) == UNION {[1..k -> S] : k \in 0..n}

\* dates strings: up to MaxTokens tokens, concatenated
Tokens == {<<"1", "9", "8", "0">>, <<"2", "0", "0", "1">>, <<"8", "1">>,
           <<"-">>, <<"endash">>, <<" ">>, <<"s">>}

RECURSIVE TokenStrings(_)
TokenStrings(n) ==
    IF n = 0 THEN {<<>>}
    ELSE LET shorter == TokenStrings(n - 1)
         IN shorter \cup {t \o s : t \in Tokens, s \in shorter}

DatesArguments ==
    {Str(s) : s \in TokenStrings(MaxTokens)} \cup {Null, Num(0), Num(1985)}

\* aggregates handed to the writer directly: any bucket may be empty
WriterRow(show, dates, role) ==
    [SHOW |-> Str(show), DATES |-> Str(dates), ROLE |-> Str(role),
     ARTIST |-> Str(s_Ann), OTHER_ |-> Str(<<>>), FILENAME |-> Str(<<"a">>)]

WriterRows == {WriterRow(s_Carmen, s_1985_86, s_Mimi), WriterRow(s_Aida, s_TBD, s_Don)}

WriterLabels == {lit_Unknown, s_1978, <<"2", "0", "0", "1">>}

Aggregates ==
    UNION {[L -> SeqsUpTo(WriterRows, MaxRows)] : L \in SUBSET WriterLabels}

OldFile == [exists |-> TRUE,
            sheets |-> <<[name |-> <<"o", "l", "d">>, columns |-> <<>>, rows |-> <<>>]>>]

\* documents handed to extract_table_data.  Every level of the schema occurs
\* present, absent and wrongly typed; ROLE, ARTIST, OTHER and SHOW leaves are
\* str, as the analyzer's schema has them.
Opt(k, values) == {EmptyDict} \cup {k :> x : x \in values}

WellTypedEntries ==
    {Obj("valueObject" :> Obj(r @@ a @@ o)) :
        r \in Opt("ROLE", {Leaf(s_Mimi), Leaf(<<>>), Obj(EmptyDict)}),
        a \in Opt("ARTIST", {Leaf(s_Ann), Leaf(<<>>)}),
        o \in Opt("OTHER", {Leaf(s_cover)})}
    \cup {Obj("kind" :> Str(s_cover))}

WrongTypedEntries ==
    {Null, Num(5), Str(<<"s">>), Str(KeyChars("valueObject")), Arr(<<>>),
     Obj("valueObject" :> Null),
     Obj("valueObject" :> Obj(("ROLE" :> Null) @@ ("ARTIST" :> Leaf(s_Ann))))}

Entries == WellTypedEntries \cup WrongTypedEntries

GoodEntries == <<RoleEntry(s_Mimi, s_Ann)>>

EntryDocuments ==
    {Document(<<Block(s_Carmen, Leaf(s_1985_86), es)>>) :
        es \in SeqsUpTo(Entries, MaxEntries)}

FieldsVariants ==
    {Obj(sh @@ da @@ dt @@ ro) :
        sh \in Opt("SHOW", {Leaf(s_Carmen), Obj(EmptyDict), Str(s_Carmen), Null}),
        da \in Opt("DATES", {Leaf(s_1985_86), Obj(EmptyDict), Str(s_TBD), Null,
                             Obj("valueString" :> Num(1985))}),
        dt \in Opt("DATE", {DateLeaf(s_Mar2001), Obj(EmptyDict)}),
        ro \in Opt("ROLES", {Obj("valueArray" :> Arr(GoodEntries)), Obj(EmptyDict),
                             Null, Arr(GoodEntries),
                             Obj("valueArray" :> Null),
                             Obj("valueArray" :> Str(s_cover)),
                             Obj("valueArray" :> Obj("kind" :> Null)),
                             Obj("valueArray" :> Obj("valueObject" :> Null))})}

ContentVariants ==
    {Obj("fields" :> f) : f \in FieldsVariants}
    \cup {Obj(EmptyDict), Null, Num(5), Str(s_cover), Str(KeyChars("fields")),
          Arr(<<>>), Arr(<<Str(KeyChars("fields"))>>),
          Obj("fields" :> Null), Obj("fields" :> Str(s_cover))}

SiblingBlocks ==
    {Block(s_Carmen, Leaf(s_1985_86), GoodEntries),
     Obj("fields" :> Obj(("SHOW" :> Leaf(s_Aida)) @@ ("DATE" :> DateLeaf(s_Mar2001))
                         @@ ("ROLES" :> Obj("valueArray" :> Arr(<<RoleEntry(s_Don, s_Bo)>>))))),
     Obj("fields" :> Obj("SHOW" :> Leaf(s_Aida))),
     Obj(EmptyDict), Null, Str(s_cover)}

TopLevelVariants ==
    {Obj(EmptyDict), Null, Num(5), Str(s_cover), Str(KeyChars("result")),
     Arr(<<>>), Arr(<<Str(KeyChars("result"))>>),
     Obj("result" :> Obj(EmptyDict)), Obj("result" :> Null), Obj("result" :> Num(5)),
     Obj("result" :> Str(s_cover)), Obj("result" :> Str(KeyChars("contents"))),
     Obj("result" :> Arr(<<>>)), Obj("result" :> Arr(<<Str(KeyChars("contents"))>>)),
     Obj("result" :> Obj("contents" :> Null)),
     Obj("result" :> Obj("contents" :> Num(5))),
     Obj("result" :> Obj("contents" :> Str(s_cover))),
     Obj("result" :> Obj("contents" :> Obj("kind" :> Null))),
     Obj("result" :> Obj("contents" :> Obj("fields" :> Null)))}

Documents ==
    EntryDocuments
    \cup {Document(<<c>>) : c \in ContentVariants}
    \cup {Document(<<b1, b2>>) : b1 \in SiblingBlocks, b2 \in SiblingBlocks}
    \cup TopLevelVariants

\* the filename argument of the direct calls
ArgFilename == Str(<<"a">>)

(***************************************************************************)
(* Initial states.                                                         *)
(***************************************************************************)
\* no call of poll_result is under way
PollIdle ==
    /\ operation_location = <<>>
    /\ timeout_seconds = 0
    /\ polling_interval_seconds = 0
    /\ clock = 0
    /\ elapsed_time = 0
    /\ poll_requests = 0
    /\ poll_response = NoResponse
    /\ status = <<>>
    /\ poll_outcome = ""
    /\ poll_returned = EmptyDict

\* convert_curesults_to_excel has called process_json_files(json_files)
Init ==
    /\ pc = "process"
    /\ json_files \in SeqsUpTo(Paths, MaxFiles)
    /\ json_data = Null
    /\ table_data = <<>>
    /\ extract_exc = FALSE
    /\ dates_str = Null
    /\ year_label = <<>>
    /\ year_exc = FALSE
    /\ file_idx = 0
    /\ all_data_by_year = EmptyDict
    /\ processed_files = <<>>
    /\ data_by_year = EmptyDict
    /\ output_file \in {NoFile, OldFile}
    /\ printed = ""
    /\ writer_exc = FALSE
    /\ PollIdle

\* a caller is about to call save_to_excel_by_year(data_by_year, output_path)
InitWriter ==
    /\ pc = "save"
    /\ data_by_year \in Aggregates
    /\ output_file \in {NoFile, OldFile}
    /\ json_data = Null
    /\ table_data = <<>>
    /\ extract_exc = FALSE
    /\ dates_str = Null
    /\ year_label = <<>>
    /\ year_exc = FALSE
    /\ json_files = <<>>
    /\ file_idx = 0
    /\ all_data_by_year = EmptyDict
    /\ processed_files = <<>>
    /\ printed = ""
    /\ writer_exc = FALSE
    /\ PollIdle

\* a caller is about to call extract_year_from_dates(dates_str)
InitYear ==
    /\ pc = "classify"
    /\ dates_str \in DatesArguments
    /\ json_data = Null
    /\ table_data = <<>>
    /\ extract_exc = FALSE
    /\ year_label = <<>>
    /\ year_exc = FALSE
    /\ json_files = <<>>
    /\ file_idx = 0
    /\ all_data_by_year = EmptyDict
    /\ processed_files = <<>>
    /\ data_by_year = EmptyDict
    /\ output_file = NoFile
    /\ printed = ""
    /\ writer_exc = FALSE
    /\ PollIdle

\* a caller is about to call extract_table_data(json_data, filename)
InitExtract ==
    /\ pc = "extract"
    /\ json_data \in Documents
    /\ table_data = <<>>
    /\ extract_exc = FALSE
    /\ dates_str = Null
    /\ year_label = <<>>
    /\ year_exc = FALSE
    /\ json_files = <<>>
    /\ file_idx = 0
    /\ all_data_by_year = EmptyDict
    /\ processed_files = <<>>
    /\ data_by_year = EmptyDict
    /\ output_file = NoFile
    /\ printed = ""
    /\ writer_exc = FALSE
    /\ PollIdle

(***************************************************************************)
(* Actions.                                                                *)
(***************************************************************************)
\* one iteration of `for json_file in json_files`
ProcessNextFile ==
    /\ pc = "process"
    /\ file_idx < Len(json_files)
    /\ \E st \in {ProcessFile([all |-> all_data_by_year, processed |-> processed_files],
                                json_files[file_idx + 1])} :
          /\ all_data_by_year' = st.all
          /\ processed_files' = st.processed
    /\ file_idx' = file_idx + 1
    /\ UNCHANGED <<pc, json_files, extractVars, yearVars, writerVars, pollVars>>

\* `return dict(all_data_by_year), processed_files`
ProcessReturn ==
    /\ pc = "process"
    /\ file_idx = Len(json_files)
    /\ pc' = "returned"
    /\ UNCHANGED <<batchVars, extractVars, yearVars, writerVars, pollVars>>

\* convert_curesults_to_excel, lines 287-292: nothing extracted ends the run,
\* anything else is handed to save_to_excel_by_year
ConvertResults ==
    /\ pc = "returned"
    /\ IF DOMAIN all_data_by_year = {}
       THEN /\ pc' = "done"
            /\ printed' = "No valid data extracted from any files."
            /\ UNCHANGED data_by_year
       ELSE /\ pc' = "save"
            /\ data_by_year' = all_data_by_year
            /\ UNCHANGED printed
    /\ UNCHANGED <<batchVars, extractVars, yearVars, output_file, writer_exc, pollVars>>

SaveToExcelByYear ==
    /\ pc = "save"
    /\ \E openpyxl \in BOOLEAN :
          LET r == save_to_excel_by_year(data_by_year, output_file, openpyxl)
          IN /\ output_file' = r.file
             /\ printed' = r.printed
             /\ writer_exc' = r.exc
    /\ pc' = "saved"
    /\ UNCHANGED <<data_by_year, batchVars, extractVars, yearVars, pollVars>>

ExtractYearFromDates ==
    /\ pc = "classify"
    /\ LET r == extract_year_from_dates(dates_str)
       IN /\ year_label' = r.val
          /\ year_exc' = r.err
    /\ pc' = "classified"
    /\ UNCHANGED <<dates_str, batchVars, extractVars, writerVars, pollVars>>

ExtractTableData ==
    /\ pc = "extract"
    /\ \E r \in {extract_table_data(json_data, ArgFilename)} :
          /\ table_data' = r.val
          /\ extract_exc' = r.err
    /\ pc' = "extracted"
    /\ UNCHANGED <<json_data, batchVars, yearVars, writerVars, pollVars>>

\* a call of json_to_table_converter.extract_table_data(json_data)
ConverterExtractTableData ==
    /\ pc = "extract"
    /\ \E r \in {converter_extract_table_data(json_data)} :
          /\ table_data' = r.val
          /\ extract_exc' = r.err
    /\ pc' = "converted"
    /\ UNCHANGED <<json_data, batchVars, yearVars, writerVars, pollVars>>

Next == ProcessNextFile \/ ProcessReturn \/ ConvertResults \/ SaveToExcelByYear

Spec == Init /\ [][Next]_vars

NextWriter == SaveToExcelByYear

SpecWriter == InitWriter /\ [][NextWriter]_vars

NextYear == ExtractYearFromDates

SpecYear == InitYear /\ [][NextYear]_vars

NextExtract == ExtractTableData

SpecExtract == InitExtract /\ [][NextExtract]_vars

\* either entry point: a direct extraction, or a batch
InitRecords == InitExtract \/ Init

NextRecords == ExtractTableData \/ Next

SpecRecords == InitRecords /\ [][NextRecords]_vars

\* a caller is about to call poll_result(response, timeout_seconds,
\* polling_interval_seconds); the interval is positive
InitPoll ==
    /\ pc = "poll_call"
    /\ operation_location \in {<<>>, op_url}
    /\ timeout_seconds \in -1..MaxTimeout
    /\ polling_interval_seconds \in 1..MaxInterval
    /\ clock = 0
    /\ elapsed_time = 0
    /\ poll_requests = 0
    /\ poll_response = NoResponse
    /\ status = <<>>
    /\ poll_outcome = ""
    /\ poll_returned = EmptyDict
    /\ json_data = Null
    /\ table_data = <<>>
    /\ extract_exc = FALSE
    /\ dates_str = Null
    /\ year_label = <<>>
    /\ year_exc = FALSE
    /\ json_files = <<>>
    /\ file_idx = 0
    /\ all_data_by_year = EmptyDict
    /\ processed_files = <<>>
    /\ data_by_year = EmptyDict
    /\ output_file = NoFile
    /\ printed = ""
    /\ writer_exc = FALSE

pipelineVars == <<extractVars, yearVars, batchVars, writerVars>>

\* lines 501-507: the header is read, start_time is taken
PollResultCall ==
    /\ pc = "poll_call"
    /\ IF Len(operation_location) = 0
       THEN /\ pc' = "poll_done"
            /\ poll_outcome' = "ValueError"
       ELSE /\ pc' = "poll_round"
            /\ UNCHANGED poll_outcome
    /\ clock' = 0
    /\ UNCHANGED <<operation_location, timeout_seconds, polling_interval_seconds,
                   elapsed_time, poll_requests, poll_response, status,
                   poll_returned, pipelineVars>>

\* mutant of PollRound: the deadline is compared with >=
PollRoundAtDeadline ==
    /\ pc = "poll_round"
    /\ \E d \in 0..MaxDelay :
          /\ clock' = clock + d
          /\ elapsed_time' = clock + d
          /\ IF clock + d >= timeout_seconds
             THEN /\ pc' = "poll_done"
                  /\ poll_outcome' = "TimeoutError"
             ELSE /\ pc' = "poll_request"
                  /\ UNCHANGED poll_outcome
    /\ UNCHANGED <<operation_location, timeout_seconds, polling_interval_seconds,
                   poll_requests, poll_response, status, poll_returned,
                   pipelineVars>>

\* lines 509-516: the clock is read, having moved by d since start_time was
\* taken or since the sleep ended
PollRound ==
    /\ pc = "poll_round"
    /\ \E d \in 0..MaxDelay :
          /\ clock' = clock + d
          /\ elapsed_time' = clock + d
          /\ IF clock + d > timeout_seconds
             THEN /\ pc' = "poll_done"
                  /\ poll_outcome' = "TimeoutError"
             ELSE /\ pc' = "poll_request"
                  /\ UNCHANGED poll_outcome
    /\ UNCHANGED <<operation_location, timeout_seconds, polling_interval_seconds,
                   poll_requests, poll_response, status, poll_returned,
                   pipelineVars>>

\* lines 518-533: one requests.get, which completes, and what follows from
\* its response
PollRequest ==
    /\ pc = "poll_request"
    /\ poll_requests' = poll_requests + 1
    /\ \E response \in PollResponses :
          /\ poll_response' = response
          /\ IF ~response.ok
             THEN /\ pc' = "poll_done"
                  /\ poll_outcome' = "HTTPError"
                  /\ UNCHANGED <<status, poll_returned>>
             ELSE /\ status' = StatusOf(response.body)
                  /\ IF StatusOf(response.body) = lit_succeeded
                     THEN /\ pc' = "poll_done"
                          /\ poll_outcome' = "return"
                          /\ poll_returned' = response.body
                     ELSE IF StatusOf(response.body) = lit_failed
                     THEN /\ pc' = "poll_done"
                          /\ poll_outcome' = "RuntimeError"
                          /\ UNCHANGED poll_returned
                     ELSE /\ pc' = "poll_sleep"
                          /\ UNCHANGED <<poll_outcome, poll_returned>>
    /\ UNCHANGED <<operation_location, timeout_seconds, polling_interval_seconds,
                   clock, elapsed_time, pipelineVars>>

\* line 535: time.sleep(polling_interval_seconds) returns no sooner than asked
PollSleep ==
    /\ pc = "poll_sleep"
    /\ \E d \in 0..MaxDelay : clock' = clock + polling_interval_seconds + d
    /\ pc' = "poll_round"
    /\ UNCHANGED <<operation_location, timeout_seconds, polling_interval_seconds,
                   elapsed_time, poll_requests, poll_response, status,
                   poll_outcome, poll_returned, pipelineVars>>

NextPoll == PollResultCall \/ PollRound \/ PollRequest \/ PollSleep

SpecPoll == InitPoll /\ [][NextPoll]_vars

\* the call runs on: no step of it waits for anything but the request and
\* the sleep, which both complete
SpecPollFair == SpecPoll /\ WF_vars(NextPoll)

\* both extractors, each called on the same documents
NextExtractors == ExtractTableData \/ ConverterExtractTableData

SpecExtractors == InitExtract /\ [][NextExtractors]_vars

(***************************************************************************)
(* Claims about the batch orchestrator and the aggregator.                 *)
(***************************************************************************)
\* the document at path loaded and parsed, and extraction returned a row
LoadedAndYielded(path) ==
    LET loaded == load_json_data(path)
    IN /\ ~loaded.err
       /\ LET rows == extract_table_data(loaded.val, Str(PathName(path)))
          IN ~rows.err /\ rows.val # <<>>

\* C1: when process_json_files returns, every path has been looped over and
\* the success list is exactly the subsequence of the input paths whose
\* document loaded and parsed without error and yielded at least one record.
C1_SuccessListIsLoadedAndYielded ==
    pc = "returned" =>
        /\ file_idx = Len(json_files)
        /\ processed_files = SelectSeq(json_files, LoadedAndYielded)

\* the rows extracted from the files of a list, in file order and then in
\* document order
RECURSIVE RowsOfFiles(_)
RowsOfFiles(files) ==
    IF files = <<>> THEN <<>>
    ELSE extract_table_data(load_json_data(Head(files)).val,
                            Str(PathName(Head(files)))).val
         \o RowsOfFiles(Tail(files))

LabelOfRow(row) == extract_year_from_dates(row.DATES).val

RECURSIVE SumOfSizes(_, _)
SumOfSizes(d, years) ==
    IF years = {} THEN 0
    ELSE LET y == CHOOSE x \in years : TRUE
         IN Len(d[y]) + SumOfSizes(d, years \ {y})

\* C2: at every point of a batch, each bucket holds exactly the rows of the
\* successfully processed files whose DATES classify to its label, in
\* processing order; no bucket is empty, nothing is dropped or deduplicated,
\* and the bucket sizes add up to the number of rows extracted.
C2_BucketsPartitionExtractedRows ==
    LET rows   == RowsOfFiles(processed_files)
        labels == {LabelOfRow(rows[i]) : i \in 1..Len(rows)}
    IN /\ DOMAIN all_data_by_year = labels
       /\ \A y \in labels :
             all_data_by_year[y] = SelectSeq(rows, LAMBDA r : LabelOfRow(r) = y)
       /\ SumOfSizes(all_data_by_year, DOMAIN all_data_by_year) = Len(rows)

\* a finished batch of two or more successful files with two or more
\* buckets, one of them holding the same row twice and rows of two files
C2_Witness ==
    /\ pc = "returned"
    /\ Len(processed_files) >= 2
    /\ Cardinality(DOMAIN all_data_by_year) >= 2
    /\ \E y \in DOMAIN all_data_by_year :
          LET b == all_data_by_year[y]
          IN /\ \E i, j \in 1..Len(b) : i < j /\ b[i] = b[j]
             /\ \E i, j \in 1..Len(b) : b[i].FILENAME # b[j].FILENAME

(***************************************************************************)
(* Claims about the record extractor.                                      *)
(***************************************************************************)
Absent == [t |-> "absent", v |-> 0]

\* x[k] when x is an object holding k
Field(x, k) == IF x.t = "obj" /\ k \in DOMAIN x.v THEN x.v[k] ELSE Absent

\* the items of x when x is an array
Items(x) == IF x.t = "arr" THEN x.v ELSE <<>>

\* the leaf x[k][sub], or the empty string
LeafOr(x, k, sub) ==
    LET w == Field(Field(x, k), sub)
    IN IF w.t = "absent" THEN Str(<<>>) ELSE w

NonEmptyStr(x) == x.t = "str" /\ Len(x.v) > 0

\* <<ROLE, ARTIST, OTHER>> of the role entries that have both ROLE and ARTIST
RECURSIVE TriplesOfEntries(_)
TriplesOfEntries(entries) ==
    IF entries = <<>> THEN <<>>
    ELSE LET o      == Field(Head(entries), "valueObject")
             role   == LeafOr(o, "ROLE", "valueString")
             artist == LeafOr(o, "ARTIST", "valueString")
             other  == LeafOr(o, "OTHER", "valueString")
         IN (IF NonEmptyStr(role) /\ NonEmptyStr(artist)
             THEN <<<<role, artist, other>>>> ELSE <<>>)
            \o TriplesOfEntries(Tail(entries))

RECURSIVE TriplesOfContents(_)
TriplesOfContents(contents) ==
    IF contents = <<>> THEN <<>>
    ELSE TriplesOfEntries(Items(Field(Field(Field(Head(contents), "fields"),
                                            "ROLES"), "valueArray")))
         \o TriplesOfContents(Tail(contents))

ExpectedTriples(doc) ==
    TriplesOfContents(Items(Field(Field(doc, "result"), "contents")))

RowsHaveRoleAndArtist(rows) ==
    \A i \in 1..Len(rows) : NonEmptyStr(rows[i].ROLE) /\ NonEmptyStr(rows[i].ARTIST)

\* C3: when extract_table_data returns, its rows are, in document order, one
\* row per role entry whose ROLE and ARTIST are both non-empty and none for
\* any other entry, a missing OTHER giving an empty OTHER; so every row
\* returned, and every row of every bucket of a batch, has a non-empty ROLE
\* and ARTIST.
C3_RowIffRoleAndArtist ==
    /\ (pc = "extracted" /\ ~extract_exc) =>
          /\ [i \in 1..Len(table_data) |->
                <<table_data[i].ROLE, table_data[i].ARTIST, table_data[i].OTHER_>>]
             = ExpectedTriples(json_data)
          /\ RowsHaveRoleAndArtist(table_data)
    /\ \A y \in DOMAIN all_data_by_year : RowsHaveRoleAndArtist(all_data_by_year[y])

\* a block of two entries, one of them dropped, whose surviving sibling has
\* no OTHER
C3_Witness ==
    /\ pc = "extracted"
    /\ ~extract_exc
    /\ Len(table_data) = 1
    /\ table_data[1].OTHER_ = Str(<<>>)
    /\ Len(Items(Field(Field(Field(Items(Field(Field(json_data, "result"),
                                               "contents"))[1],
                                   "fields"), "ROLES"), "valueArray"))) = 2

\* C4: extract_table_data never raises, whatever the types of the values in
\* the document.
C4_ExtractNeverRaises == pc = "extracted" => ~extract_exc

(***************************************************************************)
(* Claims about the year classifier.                                       *)
(***************************************************************************)
\* a 4-digit token 19xx or 20xx starts at i with no word character next to it
StandaloneYearAt(s, i) ==
    /\ i >= 1
    /\ i + 3 <= Len(s)
    /\ <<s[i], s[i + 1]>> \in {<<"1", "9">>, <<"2", "0">>}
    /\ s[i + 2] \in Digits
    /\ s[i + 3] \in Digits
    /\ (i = 1 \/ ~IsWord(s[i - 1]))
    /\ (i + 3 = Len(s) \/ ~IsWord(s[i + 4]))

HasStandaloneYear(s) == \E i \in 1..Len(s) : StandaloneYearAt(s, i)

LeftmostStandaloneYear(s) ==
    LET i == CHOOSE k \in 1..Len(s) :
                 StandaloneYearAt(s, k) /\ \A j \in 1..(k - 1) : ~StandaloneYearAt(s, j)
    IN SubSeq(s, i, i + 3)

\* a range such as 1980-81 starts at j: year digits, a hyphen or an en dash,
\* two digits, no word character on either side
RangeTokenAt(s, j) ==
    /\ j >= 1
    /\ j + 6 <= Len(s)
    /\ <<s[j], s[j + 1]>> \in {<<"1", "9">>, <<"2", "0">>}
    /\ s[j + 2] \in Digits
    /\ s[j + 3] \in Digits
    /\ s[j + 4] \in {"-", "endash"}
    /\ s[j + 5] \in Digits
    /\ s[j + 6] \in Digits
    /\ (j = 1 \/ ~IsWord(s[j - 1]))
    /\ (j + 6 = Len(s) \/ ~IsWord(s[j + 7]))

\* C5: when the dates string holds a standalone 4-digit token 19xx or 20xx,
\* extract_year_from_dates returns the leftmost such token verbatim.
C5_LeftmostStandaloneYear ==
    (pc = "classified" /\ dates_str.t = "str" /\ HasStandaloneYear(dates_str.v)) =>
        /\ ~year_exc
        /\ year_label = LeftmostStandaloneYear(dates_str.v)

\* two different standalone years after some other text; the first is returned
C5_Witness ==
    /\ pc = "classified"
    /\ dates_str.t = "str"
    /\ \E i, j \in 2..Len(dates_str.v) :
          /\ i < j
          /\ StandaloneYearAt(dates_str.v, i)
          /\ StandaloneYearAt(dates_str.v, j)
          /\ ~StandaloneYearAt(dates_str.v, 1)
          /\ SubSeq(dates_str.v, i, i + 3) # SubSeq(dates_str.v, j, j + 3)
          /\ year_label = SubSeq(dates_str.v, i, i + 3)

IsYearSheetName(n) ==
    n = lit_Unknown_Year \/ (Len(n) > 5 /\ SubSeq(n, 1, 5) = lit_Year_)

LabelOfSheet(n) == IF n = lit_Unknown_Year THEN lit_Unknown ELSE SubSeq(n, 6, Len(n))

NameOfLabel(y) == IF y = lit_Unknown THEN lit_Unknown_Year ELSE lit_Year_ \o y

YearSheetsOf(file) == SelectSeq(file.sheets, LAMBDA sh : IsYearSheetName(sh.name))

NonEmptyLabels(d) == {y \in DOMAIN d : Len(d[y]) > 0}

\* Unknown before every real year, real years ascending
SheetBefore(a, b) ==
    \/ a = lit_Unknown /\ b # lit_Unknown
    \/ a # lit_Unknown /\ b # lit_Unknown /\ StrLess(a, b)

\* C7: after save_to_excel_by_year wrote, the year sheets are one per
\* non-empty bucket, named Unknown_Year for the sentinel and Year_<label> for
\* a real year, the Unknown sheet first and the real years ascending; an
\* empty bucket has no sheet.
C7_SheetOrderAndNames ==
    (pc = "saved" /\ ~writer_exc /\ NonEmptyLabels(data_by_year) # {}) =>
        LET ys == YearSheetsOf(output_file)
        IN /\ Len(ys) = Cardinality(NonEmptyLabels(data_by_year))
           /\ {ys[i].name : i \in 1..Len(ys)}
              = {NameOfLabel(y) : y \in NonEmptyLabels(data_by_year)}
           /\ \A i, j \in 1..Len(ys) :
                 i < j => SheetBefore(LabelOfSheet(ys[i].name), LabelOfSheet(ys[j].name))

\* buckets Unknown, 1978 and 2001 of which one real year is empty: the
\* Unknown sheet comes first and the empty bucket has no sheet
C7_Witness ==
    /\ pc = "saved"
    /\ ~writer_exc
    /\ Cardinality(DOMAIN data_by_year) = 3
    /\ Cardinality(NonEmptyLabels(data_by_year)) = 2
    /\ Len(YearSheetsOf(output_file)) = 2
    /\ YearSheetsOf(output_file)[1].name = lit_Unknown_Year

\* str lists the strings of S sorted and joined by ", "
IsSortedListing(str, S) ==
    \E q \in [1..Cardinality(S) -> S] :
        /\ \A i, j \in 1..Cardinality(S) : i < j => StrLess(q[i], q[j])
        /\ str = JoinComma(q)

ShowsOf(bucket) == {bucket[k].SHOW.v : k \in 1..Len(bucket)}

\* C8: whenever the written file holds a year sheet, its last sheet is the
\* only "Summary" sheet; that sheet has one row per year sheet, in the same
\* order, with the bucket's row count, its number of distinct SHOW values,
\* those values sorted, and the name of the sheet written for the bucket.
C8_SummaryMatchesSheets ==
    (pc = "saved" /\ Len(YearSheetsOf(output_file)) > 0) =>
        LET sh == output_file.sheets
            n  == Len(sh)
        IN /\ sh[n].name = lit_Summary
           /\ \A i \in 1..(n - 1) : IsYearSheetName(sh[i].name)
           /\ Len(sh[n].rows) = n - 1
           /\ \A i \in 1..(n - 1) :
                 LET row == sh[n].rows[i]
                     b   == data_by_year[row.Year]
                 IN /\ row.Year = LabelOfSheet(sh[i].name)
                    /\ row.Sheet_Name = sh[i].name
                    /\ row.Total_Roles = Len(b)
                    /\ row.Total_Roles = Len(sh[i].rows)
                    /\ row.Total_Roles > 0
                    /\ row.Unique_Shows = Cardinality(ShowsOf(b))
                    /\ IsSortedListing(row.Shows, ShowsOf(b))

\* a summary of two rows: a bucket of two rows of one show, and a bucket of
\* two shows listed "Aida, Carmen"
C8_Witness ==
    /\ pc = "saved"
    /\ Len(output_file.sheets) = 3
    /\ output_file.sheets[3].name = lit_Summary
    /\ LET rows == output_file.sheets[3].rows
       IN /\ rows[1].Total_Roles = 2
          /\ rows[1].Unique_Shows = 1
          /\ rows[2].Unique_Shows = 2
          /\ rows[2].Shows = s_Aida \o lit_CommaSpace \o s_Carmen

\* C9: a call with no bucket, or with empty buckets only, leaves the file at
\* output_path as it was, raises nothing and prints that there is nothing to
\* save.
C9_EmptyAggregateWritesNothing ==
    [][(pc = "save" /\ \A y \in DOMAIN data_by_year : Len(data_by_year[y]) = 0) =>
          /\ output_file' = output_file
          /\ writer_exc' = FALSE
          /\ printed' = "No data to save to Excel."]_vars

\* the call returned for an aggregate of three empty buckets and an existing
\* file, which is still there
C9_Witness ==
    /\ pc = "saved"
    /\ Cardinality(DOMAIN data_by_year) = 3
    /\ \A y \in DOMAIN data_by_year : Len(data_by_year[y]) = 0
    /\ output_file = OldFile
    /\ printed = "No data to save to Excel."

(***************************************************************************)
(* The merge property of the batch orchestrator.                           *)
(***************************************************************************)
Reverse(q) == [i \in 1..Len(q) |-> q[Len(q) + 1 - i]]

Occurrences(q, x) == Cardinality({i \in 1..Len(q) : q[i] = x})

SameRowsAsBags(a, b) ==
    /\ Len(a) = Len(b)
    /\ \A i \in 1..Len(a) : Occurrences(a, a[i]) = Occurrences(b, a[i])

AggregateOf(files) ==
    ProcessFiles([all |-> EmptyDict, processed |-> <<>>], files).all

\* C10: the aggregate of a batch and the aggregate of the same files in the
\* opposite order have the same year labels and, per label, the same rows
\* with the same FILENAME, as multisets.
C10_MergeIgnoresFileOrder ==
    pc = "returned" =>
        LET other == AggregateOf(Reverse(json_files))
        IN /\ DOMAIN all_data_by_year = DOMAIN other
           /\ \A y \in DOMAIN other : SameRowsAsBags(all_data_by_year[y], other[y])

\* two files that both contribute to one bucket, whose rows come in another
\* order when the files are swapped
C10_Witness ==
    /\ pc = "returned"
    /\ Len(json_files) = 2
    /\ processed_files = json_files
    /\ \E y \in DOMAIN all_data_by_year :
          all_data_by_year[y] # AggregateOf(Reverse(json_files))[y]

(***************************************************************************)
(* Absent levels and the DATES column, for both extractors.                *)
(***************************************************************************)
ExtractorReturned == pc \in {"extracted", "converted"}

\* x is missing, or an object
AbsentOrObj(x) == x.t \in {"absent", "obj"}

\* x[k] is missing, or an object whose x[k][sub] is missing or a str
AbsentOrLeaf(x, k, sub) ==
    /\ AbsentOrObj(Field(x, k))
    /\ Field(Field(x, k), sub).t \in {"absent", "str"}

EntryAbsenceOnly(e) ==
    /\ e.t = "obj"
    /\ AbsentOrObj(Field(e, "valueObject"))
    /\ \A k \in {"ROLE", "ARTIST", "OTHER"} :
          AbsentOrLeaf(Field(e, "valueObject"), k, "valueString")

ContentAbsenceOnly(c) ==
    /\ c.t = "obj"
    /\ AbsentOrObj(Field(c, "fields"))
    /\ AbsentOrLeaf(Field(c, "fields"), "SHOW", "valueString")
    /\ AbsentOrLeaf(Field(c, "fields"), "DATES", "valueString")
    /\ AbsentOrLeaf(Field(c, "fields"), "DATE", "valueDate")
    /\ AbsentOrObj(Field(Field(c, "fields"), "ROLES"))
    /\ Field(Field(Field(c, "fields"), "ROLES"), "valueArray").t \in {"absent", "arr"}
    /\ LET es == Items(Field(Field(Field(c, "fields"), "ROLES"), "valueArray"))
       IN \A i \in 1..Len(es) : EntryAbsenceOnly(es[i])

\* every level of the document is either missing or of the type the schema
\* gives it
AbsenceOnly(doc) ==
    /\ doc.t = "obj"
    /\ AbsentOrObj(Field(doc, "result"))
    /\ Field(Field(doc, "result"), "contents").t \in {"absent", "arr"}
    /\ LET cs == Items(Field(Field(doc, "result"), "contents"))
       IN \A i \in 1..Len(cs) : ContentAbsenceOnly(cs[i])

ContentsOf(doc) == Items(Field(Field(doc, "result"), "contents"))

EntriesOf(content) ==
    Items(Field(Field(Field(content, "fields"), "ROLES"), "valueArray"))

TriplesOfRows(rows) ==
    [i \in 1..Len(rows) |-> <<rows[i].ROLE, rows[i].ARTIST, rows[i].OTHER_>>]

\* C11: in either extractor a missing level is never an error and yields no
\* records for its path: without `result` or `result.contents` the result is
\* empty; a block without `fields` or `ROLES.valueArray` and an entry without
\* `valueObject` contribute nothing, and the other blocks and entries of the
\* document are extracted as if the incomplete ones were not there.
C11_AbsentLevelsYieldNothing ==
    (ExtractorReturned /\ AbsenceOnly(json_data)) =>
        /\ ~extract_exc
        /\ TriplesOfRows(table_data) = ExpectedTriples(json_data)
        /\ (Field(Field(json_data, "result"), "contents").t = "absent"
               => table_data = <<>>)

\* two blocks, the first without `fields`, the second extracted
C11_Witness ==
    /\ pc = "converted"
    /\ ~extract_exc
    /\ AbsenceOnly(json_data)
    /\ Len(ContentsOf(json_data)) = 2
    /\ Field(ContentsOf(json_data)[1], "fields").t = "absent"
    /\ Len(table_data) = 1

\* two entries, the first without `valueObject`, the second extracted
C11_WitnessEntries ==
    /\ pc = "extracted"
    /\ ~extract_exc
    /\ AbsenceOnly(json_data)
    /\ Len(ContentsOf(json_data)) = 1
    /\ Len(EntriesOf(ContentsOf(json_data)[1])) = 2
    /\ Field(EntriesOf(ContentsOf(json_data)[1])[1], "valueObject").t = "absent"
    /\ Len(table_data) = 1

\* the DATES value of a block: DATES.valueString, else DATE.valueDate, else ""
DatesOf(fields) ==
    LET a == Field(Field(fields, "DATES"), "valueString")
        b == Field(Field(fields, "DATE"), "valueDate")
    IN IF a.t # "absent" THEN a
       ELSE IF b.t # "absent" THEN b
       ELSE Str(<<>>)

\* the DATES value of every row the document gives, in document order
RECURSIVE DatesOfContents(_)
DatesOfContents(contents) ==
    IF contents = <<>> THEN <<>>
    ELSE [i \in 1..Len(TriplesOfEntries(EntriesOf(Head(contents)))) |->
             DatesOf(Field(Head(contents), "fields"))]
         \o DatesOfContents(Tail(contents))

\* C12: in either extractor every record of a block has as DATES the block's
\* fields.DATES.valueString when that key is there, otherwise its
\* fields.DATE.valueDate when that is there, otherwise the empty string; DATE
\* is used when DATES is missing and when DATES has no valueString.
C12_DatesFallback ==
    (ExtractorReturned /\ ~extract_exc) =>
        [i \in 1..Len(table_data) |-> table_data[i].DATES]
        = DatesOfContents(ContentsOf(json_data))

\* a block whose DATES is there without valueString and whose DATE has a
\* valueDate: the record's DATES is the valueDate
C12_Witness ==
    /\ ExtractorReturned
    /\ ~extract_exc
    /\ Len(ContentsOf(json_data)) = 1
    /\ Field(Field(ContentsOf(json_data)[1], "fields"), "DATES").t = "obj"
    /\ Field(Field(Field(ContentsOf(json_data)[1], "fields"), "DATES"),
             "valueString").t = "absent"
    /\ Len(table_data) = 1
    /\ table_data[1].DATES = Str(s_Mar2001)

(***************************************************************************)
(* Totality, idempotence and the range step of the year classifier.        *)
(***************************************************************************)
IsYearLabel(l) ==
    /\ Len(l) = 4
    /\ <<l[1], l[2]>> \in {<<"1", "9">>, <<"2", "0">>}
    /\ l[3] \in Digits
    /\ l[4] \in Digits

\* C13: for every str, the empty one included, extract_year_from_dates
\* returns without raising, and what it returns is "Unknown" or four digits
\* beginning with 19 or 20; a str without a standalone year gives "Unknown".
C13_ClassifierIsTotal ==
    (pc = "classified" /\ dates_str.t = "str") =>
        /\ ~year_exc
        /\ year_label = lit_Unknown \/ IsYearLabel(year_label)
        /\ ~HasStandaloneYear(dates_str.v) => year_label = lit_Unknown

\* a text with year digits in it, none of them standalone, is "Unknown"
C13_Witness ==
    /\ pc = "classified"
    /\ dates_str.t = "str"
    /\ \E i \in 1..Len(dates_str.v) : YearDigitsAt(dates_str.v, i)
    /\ ~HasStandaloneYear(dates_str.v)
    /\ ~year_exc
    /\ year_label = lit_Unknown

\* C14: the label extract_year_from_dates returns for a str classifies to
\* itself.
C14_ClassifierIsIdempotent ==
    (pc = "classified" /\ dates_str.t = "str") =>
        extract_year_from_dates(Str(year_label)) = [err |-> FALSE, val |-> year_label]

\* a year label taken out of a longer text, which classifies to itself
C14_Witness ==
    /\ pc = "classified"
    /\ dates_str.t = "str"
    /\ IsYearLabel(year_label)
    /\ Len(dates_str.v) > 4
    /\ extract_year_from_dates(Str(year_label)).val = year_label

\* the classifier without its range step: the check of line 110 and the
\* plain-year search only
PlainYearOnly(d) ==
    IF ~Truthy(d) THEN [err |-> FALSE, val |-> lit_Unknown]
    ELSE IF d.t # "str" THEN [err |-> TRUE, val |-> <<>>]
    ELSE LET m == SearchPlainYear(d.v, 1)
         IN [err |-> FALSE,
             val |-> IF m # 0 THEN SubSeq(d.v, m, m + 3) ELSE lit_Unknown]

\* C18: wherever the range pattern matches, the plain-year pattern matches at
\* the same place, so the range step is never reached with a match and
\* extract_year_from_dates equals the classifier without it on every input.
C18_RangeStepNeverDecides ==
    pc = "classified" =>
        /\ dates_str.t = "str" =>
              \A i \in 1..Len(dates_str.v) :
                  RangeAt(dates_str.v, i) => PlainYearAt(dates_str.v, i)
        /\ [err |-> year_exc, val |-> year_label] = PlainYearOnly(dates_str)

\* a text whose only year is the start of a range
C18_Witness ==
    /\ pc = "classified"
    /\ dates_str.t = "str"
    /\ \E i \in 1..Len(dates_str.v) :
          /\ RangeAt(dates_str.v, i)
          /\ \A j \in 1..Len(dates_str.v) : PlainYearAt(dates_str.v, j) => j = i
          /\ year_label = SubSeq(dates_str.v, i, i + 3)

(***************************************************************************)
(* The frame of one iteration of process_json_files.                       *)
(***************************************************************************)
RowsOfFile(path) ==
    extract_table_data(load_json_data(path).val, Str(PathName(path))).val

\* loading, parsing, extraction and the classification of every row succeed
\* and there is at least one row
Contributes(path) ==
    /\ LoadedAndYielded(path)
    /\ \A i \in 1..Len(RowsOfFile(path)) :
          ~extract_year_from_dates(RowsOfFile(path)[i].DATES).err

BucketOrEmpty(d, y) == IF y \in DOMAIN d THEN d[y] ELSE <<>>

\* C16: one iteration of the loop of process_json_files either leaves the
\* buckets and the success list exactly as they were (the file failed to
\* load, parse, extract or classify, or gave no record) or adds every record
\* of the file to its bucket and appends the file to the success list; in
\* both cases the loop goes on, no exception leaves it.
C16_FileIsAllOrNothing ==
    [][(pc = "process" /\ file_idx' = file_idx + 1) =>
          LET path == json_files[file_idx + 1]
              rows == RowsOfFile(path)
          IN /\ pc' = "process"
             /\ IF Contributes(path)
                THEN /\ processed_files' = Append(processed_files, path)
                     /\ DOMAIN all_data_by_year'
                        = DOMAIN all_data_by_year
                          \cup {LabelOfRow(rows[i]) : i \in 1..Len(rows)}
                     /\ \A y \in DOMAIN all_data_by_year' :
                           all_data_by_year'[y]
                           = BucketOrEmpty(all_data_by_year, y)
                             \o SelectSeq(rows, LAMBDA r : LabelOfRow(r) = y)
                ELSE /\ all_data_by_year' = all_data_by_year
                     /\ processed_files' = processed_files]_vars

\* the batch went past a file whose classification raises, after a file that
\* contributed and before one that contributes: only the first and the third
\* are in the aggregate
C16_Witness ==
    /\ pc = "returned"
    /\ Len(json_files) = 3
    /\ json_files[2] = p_numdate
    /\ LoadedAndYielded(p_numdate)
    /\ ~Contributes(p_numdate)
    /\ processed_files = <<json_files[1], json_files[3]>>
    /\ all_data_by_year = AggregateOf(<<json_files[1], json_files[3]>>)
    /\ DOMAIN all_data_by_year # {}

(***************************************************************************)
(* Claims about poll_result.                                               *)
(***************************************************************************)
\* a and b are the same letter in either case, or the same character
SameLetter(a, b) ==
    \/ a = b
    \/ \E k \in 1..26 : {a, b} = {UpperCase[k], LowerCase[k]}

EqualsIgnoringCase(a, b) ==
    /\ Len(a) = Len(b)
    /\ \A i \in 1..Len(a) : SameLetter(a[i], b[i])

\* the status of the last response as the service sent it
SentStatus == DictGet(poll_response.body, "status", <<>>)

Succeeded == poll_response.ok /\ EqualsIgnoringCase(SentStatus, lit_succeeded)

Failed == poll_response.ok /\ EqualsIgnoringCase(SentStatus, lit_failed)

\* how a finished call ended, the exceptions being among `failures`
PollOutcomeIs(failures) ==
    pc = "poll_done" =>
        /\ poll_outcome \in {"return"} \cup failures
        /\ poll_outcome = "return" =>
              poll_requests >= 1 /\ Succeeded /\ poll_returned = poll_response.body
        /\ poll_outcome = "TimeoutError" => elapsed_time > timeout_seconds
        /\ poll_outcome = "RuntimeError" => poll_requests >= 1 /\ Failed
        /\ poll_outcome = "HTTPError" => poll_requests >= 1 /\ ~poll_response.ok

\* what each step of a polling round leads to
PollRoundStep ==
    /\ pc = "poll_round" =>
          IF elapsed_time' > timeout_seconds
          THEN pc' = "poll_done" /\ poll_outcome' = "TimeoutError"
          ELSE pc' = "poll_request"
    /\ pc = "poll_request" =>
          /\ poll_requests' = poll_requests + 1
          /\ ~poll_response'.ok => poll_outcome' = "HTTPError"
          /\ Succeeded' => poll_outcome' = "return"
          /\ Failed' => poll_outcome' = "RuntimeError"
          /\ (poll_response'.ok /\ ~Succeeded' /\ ~Failed') =>
                pc' = "poll_sleep" /\ poll_outcome' = ""
    /\ pc = "poll_sleep" =>
          pc' = "poll_round" /\ clock' >= clock + polling_interval_seconds

PollEnded == pc = "poll_done"

\* C17 as stated, its second half: a call that got to its polling loop with
\* a non-negative timeout_seconds has sent a poll request when it ends.
C17_PollsOnceIfTimeoutNotNegative ==
    (PollEnded /\ Len(operation_location) > 0 /\ timeout_seconds >= 0) =>
        poll_requests >= 1

\* C17, amended: with every request completing and the clock moving by at
\* least polling_interval_seconds > 0 per round, poll_result ends, whatever
\* the statuses are (with TimeoutError if they stay in progress); and it
\* ends without having sent a request only by ValueError or because the
\* first reading of the elapsed time already exceeded timeout_seconds.
C17_PollingIsBounded ==
    /\ <>PollEnded
    /\ []((PollEnded /\ poll_requests = 0) =>
             \/ poll_outcome = "ValueError"
             \/ poll_outcome = "TimeoutError" /\ elapsed_time > timeout_seconds)
    /\ []((PollEnded /\ status \notin {<<>>, lit_succeeded, lit_failed}
                     /\ poll_response.ok) => poll_outcome = "TimeoutError")

\* the service stayed in progress for three polls and the call ended with
\* TimeoutError
C17_Witness ==
    /\ PollEnded
    /\ poll_outcome = "TimeoutError"
    /\ poll_requests = 3
    /\ poll_response.ok
    /\ ~Succeeded
    /\ ~Failed

====
